---- MODULE Spec2Model ----
(***************************************************************************)
(* Model of the customerimporter package (customer_importer.go).           *)
(*                                                                         *)
(* Strings are sequences of byte values, so that the comparison used by    *)
(* the sort (Go's < on strings), the split at '@' and exact field-name     *)
(* equality are computed rather than assumed.  A CSV record is a sequence  *)
(* of strings.  The input stream is unfolded lazily: every Read of the     *)
(* csv.Reader either yields one more record or io.EOF, and the records     *)
(* delivered so far are kept in the variable records.                      *)
(***************************************************************************)
EXTENDS Integers, Sequences, FiniteSets, TLC

VARIABLES
    c,               \* the CustomerImporter struct of the current run
    fieldsPerRecord, \* csv.Reader.FieldsPerRecord (0 until the first record)
    records,         \* the records the reader has returned so far (header first)
    pc,              \* "parse" while Import is in parse(), "done" once it returned
    result,          \* the first return value of Import
    err,             \* the second return value of Import
    reads,           \* the number of calls of reader.Read in the current run
    file,            \* the file of ImportFromFile: "none", "open" or "closed"
    prev             \* an earlier run kept for comparison (SpecRuns), or NoRun

vars == <<c, fieldsPerRecord, records, pc, result, err, reads, file, prev>>

\* The most data rows a run reads before the input must end.
MaxRows == 4

\* The most fields of the headers of SpecHeader.
MaxHeaderLen == 3

\* The most data rows of a file read through ImportFromFile.
MaxFileRows == 2

\* The most data rows of the short files of SpecLive and SpecRuns.
MaxRunRows == 2

\* The longest email field of the one-row files of SpecEmail.
MaxEmailLen == 4

----------------------------------------------------------------------------
(* Strings                                                                 *)

\* The byte '@', the separator of strings.Split in getDomainNameFromEmail.
At == 64

\* Go's s < t on strings: lexicographic comparison of the bytes.
RECURSIVE StrLess(_, _)
StrLess(s, t) ==
    IF t = <<>> THEN FALSE
    ELSE IF s = <<>> THEN TRUE
    ELSE IF Head(s) # Head(t) THEN Head(s) < Head(t)
    ELSE StrLess(Tail(s), Tail(t))

\* strings.Split(s, sep) for a one-byte separator: the pieces between the
\* separators, cur being the piece collected so far.
RECURSIVE SplitFrom(_, _, _)
SplitFrom(s, sep, cur) ==
    IF s = <<>> THEN <<cur>>
    ELSE IF Head(s) = sep THEN <<cur>> \o SplitFrom(Tail(s), sep, <<>>)
    ELSE SplitFrom(Tail(s), sep, Append(cur, Head(s)))

Split(s, sep) == SplitFrom(s, sep, <<>>)

\* IsValidEmail: exactly one '@', a non-empty local part before it and a
\* non-empty domain part after it.
IsValidEmail(email) ==
    LET ats == {i \in 1..Len(email) : email[i] = At}
    IN  /\ Cardinality(ats) = 1
        /\ \A i \in ats : 1 < i /\ i < Len(email)

----------------------------------------------------------------------------
(* Errors and results                                                      *)

NoError == [kind |-> "nil", line |-> 0, column |-> 0]

\* A csv.ParseError with the given Err, Line and Column.
ParseError(kind, line, column) == [kind |-> kind, line |-> line, column |-> column]

NilResult == [isNil |-> TRUE, list |-> <<>>]

\* error with the line counted from 0.
errorLineFromZero(ci, kind) == ParseError(kind, ci.line - 1, ci.emailColumnIndex)

\* CustomerImporter.error: wrap err with the current line and the column index.
error(ci, kind) == ParseError(kind, ci.line, ci.emailColumnIndex)

----------------------------------------------------------------------------
(* Sorting: sort.Sort over EmailsByDomainQtyList                           *)

\* Less with the comparison turned around.
LessReversed(p, i, j) == StrLess(p[j].Domain, p[i].Domain)

Less(p, i, j) == StrLess(p[i].Domain, p[j].Domain)

Swap(p, i, j) == [p EXCEPT ![i] = p[j], ![j] = p[i]]

\* sort.Sort uses insertion sort on slices shorter than 12 elements:
\*   for i := a + 1; i < b; i++ {
\*       for j := i; j > a && data.Less(j, j-1); j-- { data.Swap(j, j-1) } }
RECURSIVE SiftDown(_, _)
SiftDown(p, j) ==
    IF j > 1 /\ Less(p, j, j - 1) THEN SiftDown(Swap(p, j, j - 1), j - 1) ELSE p

RECURSIVE InsertionSortFrom(_, _)
InsertionSortFrom(p, i) ==
    IF i > Len(p) THEN p ELSE InsertionSortFrom(SiftDown(p, i), i + 1)

Sort(p) == InsertionSortFrom(p, 2)

\* The orders in which a range over a map with key set S may visit the keys.
IterationOrders(S) ==
    {o \in [1..Cardinality(S) -> S] : \A i, j \in 1..Cardinality(S) : o[i] = o[j] => i = j}

\* getResult without the check for an empty list.
getResultNoEmptyCheck(ci, order) ==
    LET list == [i \in 1..Len(order) |->
                   [Domain |-> order[i], EmailsCount |-> ci.domainCounter[order[i]]]]
    IN  [result |-> [isNil |-> FALSE, list |-> Sort(list)], err |-> NoError]

\* getResult: the map entries in iteration order, sorted; an empty list is
\* the error ErrNoValidEmailsFound.
getResult(ci, order) ==
    LET list   == [i \in 1..Len(order) |->
                     [Domain |-> order[i], EmailsCount |-> ci.domainCounter[order[i]]]]
        sorted == Sort(list)
    IN  IF Len(sorted) < 1
        THEN [result |-> NilResult, err |-> error(ci, "ErrNoValidEmailsFound")]
        ELSE [result |-> [isNil |-> FALSE, list |-> sorted], err |-> NoError]

----------------------------------------------------------------------------
(* Per-record processing                                                   *)

\* determineEmailColumnIndex without the early return: the last field equal
\* to emailFieldName sets the column index.
RECURSIVE determineFromLastMatch(_, _, _)
determineFromLastMatch(ci, headerRecord, i) ==
    IF i >= Len(headerRecord)
    THEN [c |-> ci, err |-> "ErrFieldNotExists"]
    ELSE LET rest == determineFromLastMatch(ci, headerRecord, i + 1)
         IN  IF rest.err = "nil" THEN rest
             ELSE IF headerRecord[i + 1] = ci.emailFieldName
             THEN [c |-> [ci EXCEPT !.emailColumnIndex = i], err |-> "nil"]
             ELSE rest

\* determineEmailColumnIndex: scan the header left to right from index i
\* (0-based); the first field equal to emailFieldName sets the column index.
RECURSIVE determineFrom(_, _, _)
determineFrom(ci, headerRecord, i) ==
    IF i >= Len(headerRecord)
    THEN [c |-> ci, err |-> "ErrFieldNotExists"]
    ELSE IF headerRecord[i + 1] = ci.emailFieldName
    THEN [c |-> [ci EXCEPT !.emailColumnIndex = i], err |-> "nil"]
    ELSE determineFrom(ci, headerRecord, i + 1)

\* determineEmailColumnIndex returning nil when the field is absent.
determineEmailColumnIndexNoError(ci, headerRecord) ==
    [c |-> determineFrom(ci, headerRecord, 0).c, err |-> "nil"]

determineEmailColumnIndex(ci, headerRecord) == determineFrom(ci, headerRecord, 0)

\* handleDuplicates that marks the email and never reports a duplicate.
handleDuplicatesNoCheck(ci, email) ==
    [c |-> [ci EXCEPT !.countedEmails = @ \cup {email}], err |-> "nil"]

\* handleDuplicates that reports duplicates but never marks an email.
handleDuplicatesNoMark(ci, email) ==
    IF email \in ci.countedEmails
    THEN [c |-> ci, err |-> "ErrEmailDuplicate"]
    ELSE [c |-> ci, err |-> "nil"]

\* handleDuplicates: an email already in countedEmails is a duplicate,
\* otherwise it is marked as counted.
handleDuplicates(ci, email) ==
    IF email \in ci.countedEmails
    THEN [c |-> ci, err |-> "ErrEmailDuplicate"]
    ELSE [c |-> [ci EXCEPT !.countedEmails = @ \cup {email}], err |-> "nil"]

\* getDomainNameFromEmail taking the piece before the '@'.
getDomainNameFromEmailFirstPiece(email) ==
    IF ~IsValidEmail(email)
    THEN [domainName |-> <<>>, err |-> "ErrEmailIsNotValid"]
    ELSE [domainName |-> Split(email, At)[1], err |-> "nil"]

\* getDomainNameFromEmail: the second piece of the email split at '@'.
getDomainNameFromEmail(email) ==
    IF ~IsValidEmail(email)
    THEN [domainName |-> <<>>, err |-> "ErrEmailIsNotValid"]
    ELSE [domainName |-> Split(email, At)[2], err |-> "nil"]

\* c.domainCounter[domainName] = 1
IncrementSetsOne(counter, domainName) ==
    IF domainName \in DOMAIN counter
    THEN [counter EXCEPT ![domainName] = 1]
    ELSE counter @@ (domainName :> 1)

\* c.domainCounter[domainName]++
Increment(counter, domainName) ==
    IF domainName \in DOMAIN counter
    THEN [counter EXCEPT ![domainName] = @ + 1]
    ELSE counter @@ (domainName :> 1)

\* updateDomainCounter that goes on to count a skipped duplicate.
updateDomainCounterCountsDuplicate(ci, record) ==
    LET email == record[ci.emailColumnIndex + 1]
        dup   == handleDuplicates(ci, email)
        dom   == getDomainNameFromEmail(email)
    IN  IF dup.err # "nil" /\ ~ci.skipErrDupEmails
        THEN [c |-> dup.c, err |-> dup.err]
        ELSE IF dom.err # "nil"
        THEN IF dup.c.skipErrInvalidEmails
             THEN [c |-> dup.c, err |-> "nil"]
             ELSE [c |-> dup.c, err |-> dom.err]
        ELSE [c |-> [dup.c EXCEPT !.domainCounter = Increment(@, dom.domainName)],
              err |-> "nil"]

\* updateDomainCounter that tests skipErrDupEmails for an invalid email.
updateDomainCounterWrongFlag(ci, record) ==
    LET email == record[ci.emailColumnIndex + 1]
        dup   == handleDuplicates(ci, email)
        dom   == getDomainNameFromEmail(email)
    IN  IF dup.err # "nil"
        THEN IF ci.skipErrDupEmails
             THEN [c |-> dup.c, err |-> "nil"]
             ELSE [c |-> dup.c, err |-> dup.err]
        ELSE IF dom.err # "nil"
        THEN IF dup.c.skipErrDupEmails
             THEN [c |-> dup.c, err |-> "nil"]
             ELSE [c |-> dup.c, err |-> dom.err]
        ELSE [c |-> [dup.c EXCEPT !.domainCounter = Increment(@, dom.domainName)],
              err |-> "nil"]

\* updateDomainCounter that validates and counts before it looks for a
\* duplicate.
updateDomainCounterCountsFirst(ci, record) ==
    LET email   == record[ci.emailColumnIndex + 1]
        dom     == getDomainNameFromEmail(email)
        counted == [ci EXCEPT !.domainCounter = Increment(@, dom.domainName)]
        dup     == handleDuplicates(counted, email)
    IN  IF dom.err # "nil"
        THEN IF ci.skipErrInvalidEmails
             THEN [c |-> ci, err |-> "nil"]
             ELSE [c |-> ci, err |-> dom.err]
        ELSE IF dup.err # "nil"
        THEN IF ci.skipErrDupEmails
             THEN [c |-> dup.c, err |-> "nil"]
             ELSE [c |-> dup.c, err |-> dup.err]
        ELSE [c |-> dup.c, err |-> "nil"]

\* updateDomainCounter
updateDomainCounter(ci, record) ==
    LET email == record[ci.emailColumnIndex + 1]
        dup   == handleDuplicates(ci, email)
        dom   == getDomainNameFromEmail(email)
    IN  IF dup.err # "nil"
        THEN IF ci.skipErrDupEmails
             THEN [c |-> dup.c, err |-> "nil"]
             ELSE [c |-> dup.c, err |-> dup.err]
        ELSE IF dom.err # "nil"
        THEN IF dup.c.skipErrInvalidEmails
             THEN [c |-> dup.c, err |-> "nil"]
             ELSE [c |-> dup.c, err |-> dom.err]
        ELSE [c |-> [dup.c EXCEPT !.domainCounter = Increment(@, dom.domainName)],
              err |-> "nil"]

----------------------------------------------------------------------------
(* The inputs: field names, emails, headers and data records               *)

\* Field names: "e" (the configured one), "E", " e" and "n".
FieldE      == <<101>>
FieldUpperE == <<69>>
FieldSpaceE == <<32, 101>>
FieldN      == <<110>>

\* A field that is not an email: "n".
Filler == <<110>>

\* "x@a", "x@ab", "x@b", "y@b", "x@B": valid, four domains, two emails in "b".
\* "" and "xb": invalid.
Emails ==
    { <<120, 64, 97>>, <<120, 64, 97, 98>>, <<120, 64, 98>>, <<121, 64, 98>>,
      <<120, 64, 66>>, <<>>, <<120, 98>> }

Headers ==
    { <<FieldN, FieldE>>, <<FieldE, FieldN>>, <<FieldN, FieldE, FieldE>>,
      <<FieldN, FieldUpperE>>, <<FieldN, FieldSpaceE>> }

\* The records Read may return after the header: two fields with the email
\* second or first, one field, and three fields.
DataRecords ==
    {<<Filler, e>> : e \in Emails}
      \cup { <<<<120, 64, 97>>, Filler>>, <<<<121, 64, 98>>, Filler>> }
      \cup { <<Filler>> }
      \cup { <<Filler, <<120, 64, 97>>, <<120, 64, 98>>>>,
             <<Filler, <<120, 64, 98>>, <<120, 64, 97>>>> }

----------------------------------------------------------------------------
(* Import and parse                                                        *)

\* The CustomerImporter as Import leaves it before parse(): the field name
\* and the options set, both maps empty, line and column index zero.
NewImporter(emailFieldName, skipDup, skipInvalid) ==
    [ emailFieldName       |-> emailFieldName,
      emailColumnIndex     |-> 0,
      domainCounter        |-> <<>>,
      countedEmails        |-> {},
      line                 |-> 0,
      skipErrDupEmails     |-> skipDup,
      skipErrInvalidEmails |-> skipInvalid ]

\* parse() returning nil on io.EOF at any line.
parseEOFNoEmptyCheck(ci, order) ==
    LET c1 == [ci EXCEPT !.line = @ + 1]
        r  == getResult(c1, order)
    IN  [c |-> c1, pc |-> "done", result |-> r.result, err |-> r.err]

\* The state in which no CustomerImporter has been made.
NoImporter == NewImporter(<<>>, FALSE, FALSE)

\* No earlier run is kept.
NoRun == [kept |-> FALSE]

\* The errors of os.Open: the file does not exist, or may not be read.
OpenErrors == {"ErrNotExist", "ErrPermission"}

\* file.Close() called only after a successful Import instead of deferred.
closeOnSuccessOnly(f, pcNext, errNext) ==
    IF f = "open" /\ pcNext = "done" /\ errNext.kind = "nil" THEN "closed" ELSE f

\* The deferred file.Close() of ImportFromFile: it runs when ImportFromFile
\* returns, that is when Import has returned (pcNext = "done"), whatever
\* the error.
deferredClose(f, pcNext, errNext) ==
    IF f = "open" /\ pcNext = "done" THEN "closed" ELSE f

\* parse() with c.line++ after the check for io.EOF instead of before Read.
parseEOFLineNotCounted(ci, order) ==
    IF ci.line = 0
    THEN [c |-> ci, pc |-> "done", result |-> NilResult,
          err |-> error(ci, "ErrEmptyFile")]
    ELSE LET r == getResult(ci, order)
         IN  [c |-> ci, pc |-> "done", result |-> r.result, err |-> r.err]

\* One iteration of the loop of parse() in which Read returns io.EOF.
\* At line 1 the file is empty; otherwise parse returns nil and Import
\* goes on to getResult.
parseEOF(ci, order) ==
    LET c1 == [ci EXCEPT !.line = @ + 1]
    IN  IF c1.line = 1
        THEN [c |-> c1, pc |-> "done", result |-> NilResult,
              err |-> error(c1, "ErrEmptyFile")]
        ELSE LET r == getResult(c1, order)
             IN  [c |-> c1, pc |-> "done", result |-> r.result, err |-> r.err]

\* parse() going on to the next record when Read returns an error.
parseRecordSkipsReadError(ci, record, readErr) ==
    LET c1 == [ci EXCEPT !.line = @ + 1]
    IN  IF readErr # "nil"
        THEN [c |-> c1, pc |-> "parse", result |-> NilResult, err |-> NoError]
        ELSE IF c1.line = 1
        THEN LET d == determineEmailColumnIndex(c1, record)
             IN  IF d.err # "nil"
                 THEN [c |-> d.c, pc |-> "done", result |-> NilResult,
                       err |-> error(d.c, d.err)]
                 ELSE [c |-> d.c, pc |-> "parse", result |-> NilResult, err |-> NoError]
        ELSE LET u == updateDomainCounter(c1, record)
             IN  IF u.err # "nil"
                 THEN [c |-> u.c, pc |-> "done", result |-> NilResult,
                       err |-> error(u.c, u.err)]
                 ELSE [c |-> u.c, pc |-> "parse", result |-> NilResult, err |-> NoError]

\* parse() keeping the error of updateDomainCounter and reading on.
parseRecordReadsOnAfterError(ci, record, readErr) ==
    LET c1 == [ci EXCEPT !.line = @ + 1]
    IN  IF readErr # "nil"
        THEN [c |-> c1, pc |-> "done", result |-> NilResult,
              err |-> ParseError(readErr, c1.line, 1)]
        ELSE IF c1.line = 1
        THEN LET d == determineEmailColumnIndex(c1, record)
             IN  IF d.err # "nil"
                 THEN [c |-> d.c, pc |-> "done", result |-> NilResult,
                       err |-> error(d.c, d.err)]
                 ELSE [c |-> d.c, pc |-> "parse", result |-> NilResult, err |-> NoError]
        ELSE LET u == updateDomainCounter(c1, record)
             IN  IF u.err # "nil"
                 THEN [c |-> u.c, pc |-> "parse", result |-> NilResult,
                       err |-> error(u.c, u.err)]
                 ELSE [c |-> u.c, pc |-> "parse", result |-> NilResult, err |-> NoError]

\* One iteration of the loop of parse() in which Read returns a record,
\* readErr being the error Read returns with it.
parseRecord(ci, record, readErr) ==
    LET c1 == [ci EXCEPT !.line = @ + 1]
    IN  IF readErr # "nil"
        THEN [c |-> c1, pc |-> "done", result |-> NilResult,
              err |-> ParseError(readErr, c1.line, 1)]
        ELSE IF c1.line = 1
        THEN LET d == determineEmailColumnIndex(c1, record)
             IN  IF d.err # "nil"
                 THEN [c |-> d.c, pc |-> "done", result |-> NilResult,
                       err |-> error(d.c, d.err)]
                 ELSE [c |-> d.c, pc |-> "parse", result |-> NilResult, err |-> NoError]
        ELSE LET u == updateDomainCounter(c1, record)
             IN  IF u.err # "nil"
                 THEN [c |-> u.c, pc |-> "done", result |-> NilResult,
                       err |-> error(u.c, u.err)]
                 ELSE [c |-> u.c, pc |-> "parse", result |-> NilResult, err |-> NoError]

\* csv.Reader.Read with FieldsPerRecord = 0: the first record sets the
\* number of fields, a later record with another number of fields is
\* returned together with ErrFieldCount.
ReadErr(fpr, record) ==
    IF fpr > 0 /\ Len(record) # fpr THEN "ErrFieldCount" ELSE "nil"

Init ==
    /\ c \in {NewImporter(FieldE, d, i) : d \in BOOLEAN, i \in BOOLEAN}
    /\ fieldsPerRecord = 0
    /\ records = <<>>
    /\ pc = "parse"
    /\ result = NilResult
    /\ err = NoError
    /\ reads = 0
    /\ file = "none"
    /\ prev = NoRun

\* Import is called again, on a reader that is not a file of
\* ImportFromFile: a new CustomerImporter and a new reader.
Import ==
    /\ pc \in {"done", "openFailed"}
    /\ c' \in {NewImporter(FieldE, d, i) : d \in BOOLEAN, i \in BOOLEAN}
    /\ fieldsPerRecord' = 0
    /\ records' = <<>>
    /\ pc' = "parse"
    /\ result' = NilResult
    /\ err' = NoError
    /\ reads' = 0
    /\ file' = "none"
    /\ UNCHANGED prev

\* ImportFromFile is called and os.Open succeeds: the file is open, its
\* Close is deferred and Import starts on it.
ImportFromFileOpened ==
    /\ pc \in {"done", "openFailed"}
    /\ c' \in {NewImporter(FieldE, d, i) : d \in BOOLEAN, i \in BOOLEAN}
    /\ fieldsPerRecord' = 0
    /\ records' = <<>>
    /\ pc' = "parse"
    /\ result' = NilResult
    /\ err' = NoError
    /\ reads' = 0
    /\ file' = "open"
    /\ UNCHANGED prev

\* ImportFromFile is called and os.Open fails: it returns nil and the error
\* of os.Open; no CustomerImporter and no reader are made.
ImportFromFileOpenFails ==
    /\ pc \in {"done", "openFailed"}
    /\ c' = NoImporter
    /\ fieldsPerRecord' = 0
    /\ records' = <<>>
    /\ pc' = "openFailed"
    /\ result' = NilResult
    /\ err' \in {ParseError(k, 0, 0) : k \in OpenErrors}
    /\ reads' = 0
    /\ file' = "none"
    /\ UNCHANGED prev

\* Read returns io.EOF.
ReadEOF ==
    /\ pc = "parse"
    /\ \E order \in IterationOrders(DOMAIN c.domainCounter) :
         LET n == parseEOF(c, order)
         IN  /\ c' = n.c
             /\ pc' = n.pc
             /\ result' = n.result
             /\ err' = n.err
             /\ file' = deferredClose(file, n.pc, n.err)
    /\ reads' = reads + 1
    /\ UNCHANGED <<fieldsPerRecord, records, prev>>

\* Read returns the header record.
ReadHeader ==
    /\ pc = "parse"
    /\ records = <<>>
    /\ \E record \in Headers :
         LET n == parseRecord(c, record, ReadErr(fieldsPerRecord, record))
         IN  /\ c' = n.c
             /\ pc' = n.pc
             /\ result' = n.result
             /\ err' = n.err
             /\ file' = deferredClose(file, n.pc, n.err)
             /\ fieldsPerRecord' = Len(record)
             /\ records' = <<record>>
    /\ reads' = reads + 1
    /\ UNCHANGED prev

\* Read returns a data record.
ReadRecord ==
    /\ pc = "parse"
    /\ records # <<>>
    /\ Len(records) <= (IF file = "none" THEN MaxRows ELSE MaxFileRows)
    /\ \E record \in DataRecords :
         LET n == parseRecord(c, record, ReadErr(fieldsPerRecord, record))
         IN  /\ c' = n.c
             /\ pc' = n.pc
             /\ result' = n.result
             /\ err' = n.err
             /\ file' = deferredClose(file, n.pc, n.err)
             /\ records' = Append(records, record)
    /\ reads' = reads + 1
    /\ UNCHANGED <<fieldsPerRecord, prev>>

Next ==
    \/ Import
    \/ ImportFromFileOpened
    \/ ImportFromFileOpenFails
    \/ ReadEOF
    \/ ReadHeader
    \/ ReadRecord

Spec == Init /\ [][Next]_vars

----------------------------------------------------------------------------
(* Short files: up to MaxRunRows data rows out of four                     *)

\* The data records of the short files: "x@a", "x@b" and "" as the second
\* of two fields, and a record of one field.
ShortRecords ==
    { <<Filler, <<120, 64, 97>>>>, <<Filler, <<120, 64, 98>>>>,
      <<Filler, <<>>>>, <<Filler>> }

\* Read returns a data record of a short file.
ReadShortRecord ==
    /\ pc = "parse"
    /\ records # <<>>
    /\ Len(records) <= MaxRunRows
    /\ \E record \in ShortRecords :
         LET n == parseRecord(c, record, ReadErr(fieldsPerRecord, record))
         IN  /\ c' = n.c
             /\ pc' = n.pc
             /\ result' = n.result
             /\ err' = n.err
             /\ file' = deferredClose(file, n.pc, n.err)
             /\ records' = Append(records, record)
    /\ reads' = reads + 1
    /\ UNCHANGED <<fieldsPerRecord, prev>>

\* One iteration of the loop of parse(): the loop is synchronous and every
\* Read returns, so an iteration that can be taken is taken.
ParseIteration == ReadEOF \/ ReadHeader \/ ReadShortRecord

NextLive == Import \/ ReadEOF \/ ReadHeader \/ ReadShortRecord

SpecLive == Init /\ [][NextLive]_vars /\ WF_vars(ParseIteration)

\* The run that has just returned, as kept for comparison: what it was
\* called with, what it read and what it returned.
FinishedRun ==
    [ kept                 |-> TRUE,
      emailFieldName       |-> c.emailFieldName,
      skipErrDupEmails     |-> c.skipErrDupEmails,
      skipErrInvalidEmails |-> c.skipErrInvalidEmails,
      records              |-> records,
      result               |-> result,
      err                  |-> err ]

\* Import called again with the maps kept from the run before, as if they
\* were package variables.
ImportNextSharedMaps ==
    /\ pc = "done"
    /\ \E d \in BOOLEAN, i \in BOOLEAN :
         c' = [NewImporter(FieldE, d, i) EXCEPT !.countedEmails = c.countedEmails,
                                                !.domainCounter = c.domainCounter]
    /\ fieldsPerRecord' = 0
    /\ records' = <<>>
    /\ pc' = "parse"
    /\ result' = NilResult
    /\ err' = NoError
    /\ reads' = 0
    /\ file' = "none"
    /\ prev' \in {prev, FinishedRun}

\* Import is called again after a run has returned; the run that returned
\* is kept for comparison, or the one kept before stays.
ImportNext ==
    /\ pc = "done"
    /\ c' \in {NewImporter(FieldE, d, i) : d \in BOOLEAN, i \in BOOLEAN}
    /\ fieldsPerRecord' = 0
    /\ records' = <<>>
    /\ pc' = "parse"
    /\ result' = NilResult
    /\ err' = NoError
    /\ reads' = 0
    /\ file' = "none"
    /\ prev' \in {prev, FinishedRun}

NextRuns == ImportNext \/ ReadEOF \/ ReadHeader \/ ReadShortRecord

SpecRuns == Init /\ [][NextRuns]_vars

----------------------------------------------------------------------------
(* Files of one data row whose email field is any short string             *)

\* Every string of '@', 'a' and 'x' up to MaxEmailLen bytes.
EmailStrings == UNION {[1..n -> {At, 97, 120}] : n \in 0..MaxEmailLen}

\* Read returns the only data record of the file: a filler field and any
\* string as the second field.
ReadEmailRecord ==
    /\ pc = "parse"
    /\ Len(records) = 1
    /\ \E email \in EmailStrings :
         LET record == <<Filler, email>>
             n      == parseRecord(c, record, ReadErr(fieldsPerRecord, record))
         IN  /\ c' = n.c
             /\ pc' = n.pc
             /\ result' = n.result
             /\ err' = n.err
             /\ file' = deferredClose(file, n.pc, n.err)
             /\ records' = Append(records, record)
    /\ reads' = reads + 1
    /\ UNCHANGED <<fieldsPerRecord, prev>>

NextEmail == Import \/ ReadEOF \/ ReadHeader \/ ReadEmailRecord

SpecEmail == Init /\ [][NextEmail]_vars

----------------------------------------------------------------------------
(* Files whose header is any short sequence of field names                 *)

\* The field name "e " (trailing space).
FieldETrailingSpace == <<101, 32>>

\* Every header of up to MaxHeaderLen fields among "e", "E", " e", "e ", "n".
HeaderStrings ==
    UNION {[1..n -> {FieldE, FieldUpperE, FieldSpaceE, FieldETrailingSpace, FieldN}] :
              n \in 1..MaxHeaderLen}

\* Read returns the header record, any of HeaderStrings.
ReadAnyHeader ==
    /\ pc = "parse"
    /\ records = <<>>
    /\ \E record \in HeaderStrings :
         LET n == parseRecord(c, record, ReadErr(fieldsPerRecord, record))
         IN  /\ c' = n.c
             /\ pc' = n.pc
             /\ result' = n.result
             /\ err' = n.err
             /\ file' = deferredClose(file, n.pc, n.err)
             /\ fieldsPerRecord' = Len(record)
             /\ records' = <<record>>
    /\ reads' = reads + 1
    /\ UNCHANGED prev

NextHeader == Import \/ ReadEOF \/ ReadAnyHeader

SpecHeader == Init /\ [][NextHeader]_vars

----------------------------------------------------------------------------
(* The input as a reader of the file sees it                               *)

\* The header contains the field name.
HasField(header, name) == \E i \in 1..Len(header) : header[i] = name

\* The position (from 1) of the leftmost header field equal to the name.
FirstMatch(header, name) ==
    CHOOSE i \in 1..Len(header) :
        header[i] = name /\ \A j \in 1..(i - 1) : header[j] # name

\* The positions in records of the data rows read so far.
DataRows == 2..Len(records)

\* Data row k has as many fields as the header.
WellFormed(k) == Len(records[k]) = Len(records[1])

\* The email of data row k: its field under the configured field name.
RowEmail(k) == records[k][FirstMatch(records[1], c.emailFieldName)]

\* The email of the last data row read.
LastRowEmail == RowEmail(Len(records))

\* The part of a valid email after its '@'.
DomainOf(email) ==
    SubSeq(email, (CHOOSE i \in 1..Len(email) : email[i] = At) + 1, Len(email))

\* The header has the field and every data row read so far is well formed.
WellFormedInput ==
    /\ Len(records) >= 1
    /\ HasField(records[1], c.emailFieldName)
    /\ \A k \in DataRows : WellFormed(k)

\* The step reads one more data row.
ReadsDataRow == Len(records) >= 1 /\ Len(records') = Len(records) + 1

RECURSIVE SumCounts(_)
SumCounts(list) ==
    IF list = <<>> THEN 0 ELSE Head(list).EmailsCount + SumCounts(Tail(list))

----------------------------------------------------------------------------
(* Claims                                                                  *)

\* C1: whenever Import succeeds, the returned list is strictly ascending by
\* domain in byte order and holds each counted domain exactly once with its
\* count, whatever the order of the rows and of the map iteration.
C1_ResultSortedByDomain ==
    (pc = "done" /\ err = NoError) =>
        /\ ~result.isNil
        /\ \A i \in 1..(Len(result.list) - 1) :
               StrLess(result.list[i].Domain, result.list[i + 1].Domain)
        /\ {result.list[i].Domain : i \in 1..Len(result.list)} = DOMAIN c.domainCounter
        /\ Len(result.list) = Cardinality(DOMAIN c.domainCounter)
        /\ \A i \in 1..Len(result.list) :
               result.list[i].EmailsCount = c.domainCounter[result.list[i].Domain]
        /\ DOMAIN c.domainCounter =
               {DomainOf(RowEmail(k)) : k \in {j \in DataRows : IsValidEmail(RowEmail(j))}}

\* Four domains fed in an order other than the sorted one (the first row's
\* domain is not the least, the last row's not the greatest).
C1_Witness ==
    /\ pc = "done"
    /\ err = NoError
    /\ Len(result.list) = 4
    /\ Len(records) = 5
    /\ DomainOf(RowEmail(2)) # result.list[1].Domain
    /\ DomainOf(RowEmail(5)) # result.list[4].Domain

\* C2: with no option flags, a well-formed input of at least one data row
\* whose emails are all valid and pairwise distinct succeeds; each domain's
\* count is the number of rows with that domain and the counts sum to the
\* number of data rows.
C2_EveryRowCountsOnce ==
    ( /\ pc = "done"
      /\ ~c.skipErrDupEmails /\ ~c.skipErrInvalidEmails
      /\ WellFormedInput
      /\ Len(records) >= 2
      /\ \A k \in DataRows : IsValidEmail(RowEmail(k))
      /\ \A j, k \in DataRows : RowEmail(j) = RowEmail(k) => j = k )
    =>
        /\ err = NoError
        /\ ~result.isNil
        /\ \A i \in 1..Len(result.list) :
               result.list[i].EmailsCount =
                   Cardinality({k \in DataRows :
                                   DomainOf(RowEmail(k)) = result.list[i].Domain})
        /\ \A k \in DataRows :
               \E i \in 1..Len(result.list) :
                   result.list[i].Domain = DomainOf(RowEmail(k))
        /\ SumCounts(result.list) = Len(records) - 1

\* Distinct valid emails, two of them in one domain, no flags.
C2_Witness ==
    /\ pc = "done"
    /\ err = NoError
    /\ ~c.skipErrDupEmails /\ ~c.skipErrInvalidEmails
    /\ Len(records) = 4
    /\ \E i \in 1..Len(result.list) : result.list[i].EmailsCount = 2
    /\ Len(result.list) = 2

\* C3: without skipDuplicateEmails a data row whose email appeared in an
\* earlier data row of the run is the last row read: the run has failed
\* there with DuplicateEmail and returned no result.
C3_DuplicateFails ==
    \A k \in DataRows :
        ( /\ WellFormedInput
          /\ ~c.skipErrDupEmails
          /\ \E j \in DataRows : j < k /\ RowEmail(j) = RowEmail(k) )
        =>
            /\ k = Len(records)
            /\ pc = "done"
            /\ err.kind = "ErrEmailDuplicate"
            /\ err.line = k
            /\ result.isNil

\* A run failed with DuplicateEmail at its third data row.
C3_Witness ==
    /\ pc = "done"
    /\ err.kind = "ErrEmailDuplicate"
    /\ Len(records) = 4
    /\ ~c.skipErrDupEmails
    /\ \E j \in DataRows : j < 4 /\ RowEmail(j) = RowEmail(4)

\* C4: with skipDuplicateEmails, reading a data row whose email appeared in
\* an earlier data row changes neither the domain counter nor the seen
\* emails, raises no error and leaves the run reading.
C4_SkippedDuplicateChangesNothing ==
    [][ ( /\ ReadsDataRow
          /\ WellFormedInput'
          /\ c.skipErrDupEmails
          /\ \E j \in DataRows : RowEmail(j) = LastRowEmail' )
        =>
            /\ c'.domainCounter = c.domainCounter
            /\ c'.countedEmails = c.countedEmails
            /\ err' = NoError
            /\ pc' = "parse"
            /\ c'.line = c.line + 1 ]_vars

\* A duplicate of a counted valid email was skipped and the run went on.
C4_Witness ==
    /\ pc = "parse"
    /\ c.skipErrDupEmails
    /\ Len(records) >= 3
    /\ WellFormedInput
    /\ IsValidEmail(RowEmail(Len(records)))
    /\ \E j \in DataRows : j < Len(records) /\ RowEmail(j) = RowEmail(Len(records))
    /\ DOMAIN c.domainCounter # {}

\* C5: a data row whose email is invalid and did not appear in an earlier
\* data row fails the run with InvalidEmail unless skipInvalidEmails is
\* set; with the flag the domain counter is unchanged and the run goes on.
C5_InvalidEmailFailsOrIsSkipped ==
    [][ ( /\ ReadsDataRow
          /\ WellFormedInput'
          /\ ~IsValidEmail(LastRowEmail')
          /\ ~\E j \in DataRows : RowEmail(j) = LastRowEmail' )
        =>
            IF c.skipErrInvalidEmails
            THEN /\ c'.domainCounter = c.domainCounter
                 /\ err' = NoError
                 /\ pc' = "parse"
            ELSE /\ pc' = "done"
                 /\ err'.kind = "ErrEmailIsNotValid"
                 /\ result'.isNil ]_vars

\* An invalid email was skipped after a valid one was counted.
C5_Witness ==
    /\ pc = "parse"
    /\ c.skipErrInvalidEmails
    /\ WellFormedInput
    /\ Len(records) >= 3
    /\ ~IsValidEmail(LastRowEmail)
    /\ ~\E j \in DataRows : j < Len(records) /\ RowEmail(j) = LastRowEmail
    /\ DOMAIN c.domainCounter # {}

\* C6: a successful result is never empty and every entry counts at least
\* one email; when the input ends after the header with an empty domain
\* counter the run fails with NoValidEmails and returns no result.
C6_NoEmptySuccess ==
    [][ /\ (pc' = "done" /\ err' = NoError) =>
               /\ ~result'.isNil
               /\ Len(result'.list) >= 1
               /\ \A i \in 1..Len(result'.list) : result'.list[i].EmailsCount >= 1
        /\ ( /\ pc = "parse" /\ pc' = "done"
             /\ records' = records
             /\ records # <<>>
             /\ DOMAIN c.domainCounter = {} )
           =>
               /\ err'.kind = "ErrNoValidEmailsFound"
               /\ result'.isNil ]_vars

\* Every data row was skipped, one as invalid and one as a duplicate.
C6_Witness ==
    /\ pc = "done"
    /\ err.kind = "ErrNoValidEmailsFound"
    /\ c.skipErrInvalidEmails /\ c.skipErrDupEmails
    /\ Len(records) = 3
    /\ RowEmail(2) = RowEmail(3)
    /\ result.isNil

\* C7: a header without the configured field name fails the run with
\* FieldNotFound whatever the flags: no data row is read and the seen
\* emails and the domain counter stay empty.
C7_FieldNotFound ==
    (Len(records) >= 1 /\ ~HasField(records[1], c.emailFieldName)) =>
        /\ pc = "done"
        /\ err.kind = "ErrFieldNotExists"
        /\ result.isNil
        /\ Len(records) = 1
        /\ c.countedEmails = {}
        /\ DOMAIN c.domainCounter = {}

\* A header with "E" instead of "e", both skip flags set.
C7_Witness ==
    /\ pc = "done"
    /\ err.kind = "ErrFieldNotExists"
    /\ records = <<<<FieldN, FieldUpperE>>>>
    /\ c.skipErrInvalidEmails /\ c.skipErrDupEmails

\* C8: a data row with another number of fields than the header fails the
\* run with MalformedRecord at that row whatever the flags: the seen emails
\* and the domain counter are not touched and no result is returned.
C8_MalformedRecordNeverSkipped ==
    [][ (ReadsDataRow /\ Len(records'[Len(records')]) # Len(records'[1])) =>
            /\ pc' = "done"
            /\ err'.kind = "ErrFieldCount"
            /\ err'.line = Len(records')
            /\ result'.isNil
            /\ c'.countedEmails = c.countedEmails
            /\ c'.domainCounter = c.domainCounter ]_vars

\* A short row after a counted row, both skip flags set.
C8_Witness ==
    /\ pc = "done"
    /\ err.kind = "ErrFieldCount"
    /\ c.skipErrInvalidEmails /\ c.skipErrDupEmails
    /\ Len(records) = 3
    /\ Len(records[3]) < Len(records[1])
    /\ DOMAIN c.domainCounter # {}

\* C9: end of input on the first read fails with EmptyInput; a header with
\* the field and no data row fails with NoValidEmails, not EmptyInput.
C9_EmptyInput ==
    /\ (pc = "done" /\ records = <<>>) =>
           /\ err.kind = "ErrEmptyFile"
           /\ result.isNil
    /\ (pc = "done" /\ Len(records) = 1 /\ HasField(records[1], c.emailFieldName)) =>
           /\ err.kind = "ErrNoValidEmailsFound"
           /\ result.isNil

\* The input ended before any record.
C9_Witness ==
    /\ pc = "done"
    /\ records = <<>>
    /\ err.kind = "ErrEmptyFile"
    /\ c.line = 1

\* C10: an InvalidEmail or DuplicateEmail error for the k-th data row
\* carries line k+1 and the column index (from 0) of the leftmost header
\* field equal to the configured name.
C10_ErrorLineAndColumn ==
    (pc = "done" /\ err.kind \in {"ErrEmailIsNotValid", "ErrEmailDuplicate"}) =>
        /\ Len(records) >= 2
        /\ err.line = (Len(records) - 1) + 1
        /\ err.column = FirstMatch(records[1], c.emailFieldName) - 1

\* An invalid email in the second data row, the email field second in the
\* header: line 3, column 1.
C10_Witness ==
    /\ pc = "done"
    /\ err = ParseError("ErrEmailIsNotValid", 3, 1)
    /\ Len(records) = 3
    /\ records[1][2] = c.emailFieldName

ValidRowEmails == {RowEmail(k) : k \in {j \in DataRows : IsValidEmail(RowEmail(j))}}

\* C12: with both skip flags and a well-formed input whose header has the
\* field, the run ends with, for each domain, the number of distinct valid
\* emails of that domain among the data rows; it succeeds exactly when
\* there is such an email and fails with NoValidEmails otherwise.
C12_ReferenceAggregation ==
    ( /\ pc = "done"
      /\ c.skipErrDupEmails /\ c.skipErrInvalidEmails
      /\ WellFormedInput )
    =>
        IF ValidRowEmails = {}
        THEN /\ err.kind = "ErrNoValidEmailsFound"
             /\ result.isNil
        ELSE /\ err = NoError
             /\ ~result.isNil
             /\ {result.list[i].Domain : i \in 1..Len(result.list)} =
                    {DomainOf(e) : e \in ValidRowEmails}
             /\ \A i \in 1..Len(result.list) :
                    result.list[i].EmailsCount =
                        Cardinality({e \in ValidRowEmails :
                                        DomainOf(e) = result.list[i].Domain})

\* Four rows: two emails of one domain, a repeated email and an invalid one.
C12_Witness ==
    /\ pc = "done"
    /\ err = NoError
    /\ c.skipErrDupEmails /\ c.skipErrInvalidEmails
    /\ Len(records) = 5
    /\ WellFormedInput
    /\ \E i \in 1..Len(result.list) : result.list[i].EmailsCount = 2
    /\ \E j, k \in DataRows : j < k /\ RowEmail(j) = RowEmail(k) /\ IsValidEmail(RowEmail(j))
    /\ \E k \in DataRows : ~IsValidEmail(RowEmail(k))

\* C13: when ImportFromFile has returned the file it opened is closed,
\* whether Import succeeded or failed; when the file could not be opened it
\* returns the error of os.Open and no result, and nothing was read or
\* aggregated.
C13_FileClosedOnEveryExit ==
    /\ pc = "done" => file # "open"
    /\ pc = "openFailed" =>
           /\ err.kind \in OpenErrors
           /\ result.isNil
           /\ file = "none"
           /\ reads = 0
           /\ records = <<>>
           /\ c.countedEmails = {}
           /\ DOMAIN c.domainCounter = {}

\* A file-backed run failed at its second data row with DuplicateEmail and
\* the file is closed.
C13_Witness ==
    /\ pc = "done"
    /\ file = "closed"
    /\ err.kind = "ErrEmailDuplicate"
    /\ Len(records) = 3

\* C14: an email is marked as seen only when its row is counted: with
\* skipInvalidEmails, reading a data row whose email is invalid leaves the
\* seen emails unchanged, raises no error (in particular no DuplicateEmail
\* when the same invalid text was read before) and the run goes on.
C14_SeenOnlyWhenCounted ==
    [][ ( /\ ReadsDataRow
          /\ WellFormedInput'
          /\ c.skipErrInvalidEmails
          /\ ~IsValidEmail(LastRowEmail') )
        =>
            /\ c'.countedEmails = c.countedEmails
            /\ err' = NoError
            /\ pc' = "parse" ]_vars

\* C15: the column index is that of the leftmost header field equal byte
\* for byte to the configured name; fields that differ in case or by a
\* space before or after do not match, and without an equal field the run
\* fails with FieldNotFound.
C15_LeftmostExactMatch ==
    Len(records) >= 1 =>
        LET header  == records[1]
            matches == {i \in 1..Len(header) : header[i] = c.emailFieldName}
        IN  IF matches = {}
            THEN /\ pc = "done"
                 /\ err.kind = "ErrFieldNotExists"
            ELSE /\ err.kind # "ErrFieldNotExists"
                 /\ c.emailColumnIndex + 1 \in matches
                 /\ \A i \in matches : c.emailColumnIndex + 1 <= i

\* The header "E", "e", "e": the name occurs twice after a field in another
\* case, and the first occurrence (index 1) is taken.
C15_Witness ==
    /\ records = <<<<FieldUpperE, FieldE, FieldE>>>>
    /\ c.emailColumnIndex = 1
    /\ pc = "parse"

\* The last data row read is one the run cannot skip: it has another number
\* of fields than the header, or its email appeared in an earlier data row
\* and skipDuplicateEmails is not set, or its email is invalid, did not
\* appear before and skipInvalidEmails is not set.
LastRowNotSkippable ==
    \/ ~WellFormed(Len(records))
    \/ /\ ~c.skipErrDupEmails
       /\ \E j \in DataRows : j < Len(records) /\ RowEmail(j) = LastRowEmail
    \/ /\ ~c.skipErrInvalidEmails
       /\ ~IsValidEmail(LastRowEmail)
       /\ ~\E j \in DataRows : j < Len(records) /\ RowEmail(j) = LastRowEmail

\* C16: the run returns at the first row it cannot skip: that row's Read is
\* the last Read of the run, nothing is read after Import returned, and
\* Import returns a result exactly when it returns no error.
C16_AbortAtFirstError ==
    [][ /\ (ReadsDataRow /\ HasField(records'[1], c'.emailFieldName)
              /\ LastRowNotSkippable')
           =>
               /\ pc' = "done"
               /\ err' # NoError
               /\ result'.isNil
               /\ reads' = Len(records')
        /\ pc' = "done" => (result'.isNil <=> err' # NoError)
        /\ pc' = "parse" => (result'.isNil /\ err' = NoError)
        /\ pc = "done" => (reads' = 0 /\ records' = <<>> /\ pc' # "done") ]_vars

\* A run stopped at an invalid email in its second data row although more
\* rows could have followed.
C16_Witness ==
    /\ pc = "done"
    /\ err.kind = "ErrEmailIsNotValid"
    /\ Len(records) = 3
    /\ reads = 3
    /\ DOMAIN c.domainCounter # {}
    /\ result.isNil

\* C17: every run over a finite input returns, with exactly one of a result
\* and an error; every Read adds one to the line counter and either
\* returns the next record of the input or its end, and a run over n rows
\* (the header included) makes at most n + 1 calls of Read.
C17_TerminatesWithinInputLength ==
    /\ (pc = "parse") ~> (pc = "done")
    /\ [](pc = "done" => (result.isNil <=> err # NoError))
    /\ [](pc # "openFailed" => (c.line = reads /\ reads <= Len(records) + 1))
    /\ [][ reads' = reads + 1 =>
               /\ c'.line = c.line + 1
               /\ \/ records' = records /\ pc' = "done"
                  \/ Len(records') = Len(records) + 1
                       /\ SubSeq(records', 1, Len(records)) = records ]_vars

\* A run over a header and MaxRunRows data rows returned a result after
\* MaxRunRows + 2 calls of Read.
C17_Witness ==
    /\ pc = "done"
    /\ err = NoError
    /\ Len(records) = MaxRunRows + 1
    /\ reads = Len(records) + 1
    /\ c.line = reads

\* C18: every call of Import starts with no seen email, an empty domain
\* counter and line 0, and a run that read the same input with the same
\* field name and flags as an earlier run returns the same result and the
\* same error, whatever runs came before or in between.
C18_RunsIndependent ==
    /\ (pc = "parse" /\ reads = 0) =>
           /\ c.countedEmails = {}
           /\ DOMAIN c.domainCounter = {}
           /\ c.line = 0
    /\ ( /\ pc = "done"
         /\ prev.kept
         /\ prev.records = records
         /\ prev.emailFieldName = c.emailFieldName
         /\ prev.skipErrDupEmails = c.skipErrDupEmails
         /\ prev.skipErrInvalidEmails = c.skipErrInvalidEmails )
       =>
           /\ result = prev.result
           /\ err = prev.err

\* Two runs without flags over the same one-row file both succeeded: the
\* email of the earlier run is not a duplicate in the later one.
C18_Witness ==
    /\ pc = "done"
    /\ prev.kept
    /\ prev.records = records
    /\ Len(records) = 2
    /\ ~c.skipErrDupEmails /\ ~prev.skipErrDupEmails
    /\ ~c.skipErrInvalidEmails /\ ~prev.skipErrInvalidEmails
    /\ err = NoError
    /\ prev.err = NoError
    /\ result = prev.result

\* The sum of the counts of a domain counter.
RECURSIVE SumOfCounter(_)
SumOfCounter(counter) ==
    IF DOMAIN counter = {} THEN 0
    ELSE LET d == CHOOSE x \in DOMAIN counter : TRUE
         IN  counter[d] + SumOfCounter([x \in DOMAIN counter \ {d} |-> counter[x]])

\* C19: at every point of a run, whatever the flags, every domain of the
\* domain counter has a count of at least 1 and is the domain of a seen
\* email, and the counts sum to the number of valid seen emails (domain by
\* domain: no email is counted twice).
C19_CounterMatchesSeenEmails ==
    LET validSeen == {e \in c.countedEmails : IsValidEmail(e)}
    IN  /\ \A d \in DOMAIN c.domainCounter :
               /\ c.domainCounter[d] >= 1
               /\ \E e \in validSeen : DomainOf(e) = d
               /\ c.domainCounter[d] = Cardinality({e \in validSeen : DomainOf(e) = d})
        /\ SumOfCounter(c.domainCounter) = Cardinality(validSeen)

\* Two valid emails of one domain and an invalid one are seen, and a
\* repeated email was skipped.
C19_Witness ==
    /\ pc = "parse"
    /\ Len(records) = 5
    /\ Cardinality(c.countedEmails) = 3
    /\ \E e \in c.countedEmails : ~IsValidEmail(e)
    /\ \E d \in DOMAIN c.domainCounter : c.domainCounter[d] = 2
    /\ SumOfCounter(c.domainCounter) = 2

====
